---- MODULE Spec2Model ----
(***************************************************************************)
(* A model of syntree_layout's embedding algorithm                         *)
(* (src/src/internal/embedder.rs, src/src/internal/node.rs,                *)
(* src/src/embedding.rs): the three entry points of Embedder, run step by  *)
(* step over a syntree tree: index build (one step per walked node),       *)
(* extent aggregation (one step per walk event), centering (one step per   *)
(* layer) and the projection of the result.                                *)
(***************************************************************************)
EXTENDS Integers, Sequences, FiniteSets, TLC

\* Largest number of nodes of the enumerated input trees.
MaxNodes == 4

\* syntree's empty pointer: "no such node" in the links of a tree.
NoNode == 0

\* Option::None of InternalNode.parent (an ord is >= 0).
None == 0 - 1

(***************************************************************************)
(* Node values and their text.  A value is a number (the tests'            *)
(* MyNodeData(i32), written in decimal) or a token carrying its own text   *)
(* (example2's Ast::Tok(&'static str)).  Text is a sequence of Unicode     *)
(* code points; a String stores it in UTF-8.                               *)
(***************************************************************************)
Num(n) == [kind |-> "num", num |-> n, tok |-> <<>>]

Tok(s) == [kind |-> "tok", num |-> 0, tok |-> s]

RECURSIVE Decimal(_)
Decimal(n) ==
    IF n < 10 THEN <<48 + n>> ELSE Decimal(n \div 10) \o <<48 + (n % 10)>>

\* The stringify capability: write!(f, "{}", self.0) for a number, the token's text otherwise.
Stringify(v) == IF v.kind = "num" THEN Decimal(v.num) ELSE v.tok

\* The emphasize capability (a sample implementation of Visualize::emphasize).
Emphasize(v) == v.kind = "tok"

\* Bytes of one code point in UTF-8.
Utf8Width(c) == IF c < 128 THEN 1 ELSE IF c < 2048 THEN 2 ELSE IF c < 65536 THEN 3 ELSE 4

RECURSIVE Utf8Len(_)
\* String::len(): the length in bytes.
Utf8Len(s) == IF s = <<>> THEN 0 ELSE Utf8Width(Head(s)) + Utf8Len(Tail(s))

\* The number of characters of a text.
CharCount(s) == Len(s)

\* Byte offset of the i-th character of s (i = Len(s) + 1: the end of s).
Offset(s, i) == Utf8Len(SubSeq(s, 1, i - 1))

IsCharBoundary(s, k) == \E i \in 1..(Len(s) + 1) : Offset(s, i) = k

\* source[a..b] is defined (does not panic).
SliceOk(s, a, b) == a <= b /\ IsCharBoundary(s, a) /\ IsCharBoundary(s, b)

\* source[a..b] as a text, for SliceOk(s, a, b).
Slice(s, a, b) ==
    LET i0 == CHOOSE i \in 1..(Len(s) + 1) : Offset(s, i) = a
        i1 == CHOOSE i \in 1..(Len(s) + 1) : Offset(s, i) = b
    IN  SubSeq(s, i0, i1 - 1)

(***************************************************************************)
(* Trees.  A tree is what syntree's Builder produces: nodes numbered in    *)
(* the order they were opened, each with its links (parent, first child,   *)
(* next sibling), its value and its byte range.                            *)
(***************************************************************************)
SetMax(S) == CHOOSE x \in S : \A y \in S : y <= x

SetMin(S) == CHOOSE x \in S : \A y \in S : x <= y

RECURSIVE SumOver(_, _)
SumOver(f, S) ==
    IF S = {} THEN 0 ELSE LET x == CHOOSE y \in S : TRUE IN f[x] + SumOver(f, S \ {x})

\* The depth sequences of the forests of n nodes in opening order.
DepthSeqs(n) ==
    { d \in [1..n -> 0..(n - 1)] :
        /\ n > 0 => d[1] = 0
        /\ \A i \in 2..n : d[i] <= d[i - 1] + 1 }

\* The nodes of the subtree of i.
Subtree(d, i) == { j \in i..Len(d) : \A k \in (i + 1)..j : d[k] > d[i] }

\* The tree Builder builds for depth sequence d and values vals; with
\* tokens, every leaf is a token as long as its text, else all ranges are empty.
MkTree(d, vals, tokens) ==
    LET n == Len(d)
        isLeaf(i) == ~(i < n /\ d[i + 1] = d[i] + 1)
        tok == [i \in 1..n |->
                  IF tokens /\ isLeaf(i) THEN Utf8Len(Stringify(vals[i])) ELSE 0]
        sibs(i) == { j \in (i + 1)..n :
                       d[j] = d[i] /\ \A k \in (i + 1)..j : d[k] >= d[i] }
        start(i) == SumOver(tok, 1..(i - 1))
    IN  [ first |-> IF n > 0 THEN 1 ELSE NoNode,
          links |-> [ i \in 1..n |->
             [ value  |-> vals[i],
               parent |-> IF d[i] = 0 THEN NoNode
                          ELSE SetMax({ j \in 1..(i - 1) : d[j] = d[i] - 1 }),
               first  |-> IF isLeaf(i) THEN NoNode ELSE i + 1,
               next   |-> IF sibs(i) = {} THEN NoNode ELSE SetMin(sibs(i)),
               start  |-> start(i),
               end    |-> start(i) + SumOver(tok, Subtree(d, i)) ] ] ]

\* The values of the nodes of the enumerated trees: "", "0" and a two-byte character.
Labels == { Tok(<<>>), Num(0), Tok(<<233>>) }

\* tests/embedder_tests.rs: tree_with_single_node and more_complex_tree.
SingleNodeTree == MkTree(<<0>>, <<Num(0)>>, FALSE)

FiveNodeTree ==
    MkTree(<<0, 1, 2, 2, 1>>, <<Num(0), Num(1), Num(3), Num(4), Num(2)>>, FALSE)

\* A tree whose third layer holds the children of two parents: one child of the
\* first, two of the second.
TwoGroupTree ==
    MkTree(<<0, 1, 2, 1, 2, 2>>,
           <<Tok(<<233>>), Tok(<<>>), Tok(<<>>), Tok(<<>>), Tok(<<>>), Num(0)>>, TRUE)

(***************************************************************************)
(* The tree library's iterators, as the embedder uses them.                *)
(***************************************************************************)
RECURSIVE Siblings(_, _)
Siblings(t, id) ==
    IF id = NoNode THEN <<>> ELSE <<id>> \o Siblings(t, t.links[id].next)

\* tree.children(): the top-level nodes.
TreeChildren(t) == Siblings(t, t.first)

\* node.children(): the direct children of a node.
NodeChildren(t, id) == Siblings(t, t.links[id].first)

\* node.has_children()
HasChildren(t, id) == t.links[id].first # NoNode

RECURSIVE ClimbNext(_, _, _)
\* The node the walk visits after the subtree of id: <<depth, node>>.
ClimbNext(t, id, depth) ==
    IF t.links[id].next # NoNode THEN <<depth, t.links[id].next>>
    ELSE IF t.links[id].parent # NoNode THEN ClimbNext(t, t.links[id].parent, depth - 1)
    ELSE <<0, NoNode>>

RECURSIVE WalkFrom(_, _, _)
WalkFrom(t, id, depth) ==
    IF id = NoNode THEN <<>>
    ELSE LET s == IF t.links[id].first # NoNode
                  THEN <<depth + 1, t.links[id].first>>
                  ELSE ClimbNext(t, id, depth)
         IN  <<<<depth, id>>>> \o WalkFrom(t, s[2], s[1])

\* tree.walk().with_depths(): every node once, depth first, as <<depth, node>>.
Walk(t) == WalkFrom(t, t.first, 0)

RECURSIVE EventsFrom(_, _, _)
EventsFrom(t, id, ev) ==
    IF id = NoNode THEN <<>>
    ELSE LET l == t.links[id]
             s == IF ev # "Up" /\ l.first # NoNode THEN <<"Down", l.first>>
                  ELSE IF l.next # NoNode THEN <<"Next", l.next>>
                  ELSE IF l.parent # NoNode THEN <<"Up", l.parent>>
                  ELSE <<"End", NoNode>>
         IN  <<<<ev, id>>>> \o EventsFrom(t, s[2], s[1])

\* tree.walk_events(): <<event, node>>; Up is emitted for a node when the walk
\* leaves its last child, so a node without children gets no Up event.
WalkEvents(t) == EventsFrom(t, t.first, "Next")

\* The text the tree was parsed from: the tokens' texts in order.
SourceOf(t) ==
    LET w == Walk(t)
        piece(i) == LET l == t.links[w[i][2]]
                    IN  IF l.end > l.start /\ l.first = NoNode
                        THEN Stringify(l.value) ELSE <<>>
        cat[i \in 0..Len(w)] == IF i = 0 THEN <<>> ELSE cat[i - 1] \o piece(i)
    IN  cat[Len(w)]

\* The source strings a caller passes: the original and one cut short by a character.
Sources(t) ==
    LET s == SourceOf(t)
    IN  {s} \cup (IF s = <<>> THEN {} ELSE {SubSeq(s, 1, Len(s) - 1)})

(***************************************************************************)
(* EmbeddingHelperData: the records by ord (a Vec) and node id => ord (a   *)
(* HashMap).  Position ord of the Vec is element ord + 1 of the sequence.  *)
(***************************************************************************)
VARIABLES
    tree,       \* the tree the caller holds; never written
    pc,         \* idle | create | extents | center | done | panic
    call,       \* the entry point running (or last run) and its source argument
    items,      \* the EmbeddingHelperData of the call
    walk_pos,   \* nodes the index build has taken from tree.walk()
    event_pos,  \* events apply_children_x_extents has taken from tree.walk_events()
    layer,      \* the next layer of apply_x_center's loop
    height,     \* apply_x_center's height
    result,     \* what the call returned
    prev,       \* what the previous call (same entry point, same arguments) returned
    written,    \* the nodes whose records apply_children_x_extents wrote, in order
    reads,      \* the children whose x_extent_children its folds read, in order
    file_name,  \* Layouter::file_name
    drawer,     \* Layouter::drawer
    embedding,  \* Layouter::embedding
    receiver,   \* the Layouter the last embed_with borrowed, as it is now
    drawn,      \* the drawer's invocations: file name, embedding, what it returned
    writes,     \* calls of Layouter::write so far
    write_result \* what the last Layouter::write returned

\* The Layouter's fields and the record of its drawer.
layouter == <<file_name, drawer, embedding, receiver, drawn, writes, write_result>>

\* The trace of the extent pass.
pass == <<written, reads>>

vars == <<tree, pc, call, items, walk_pos, event_pos, layer, height, result, prev,
          written, reads, file_name, drawer, embedding, receiver, drawn, writes,
          write_result>>

\* EmbeddingHelperData::with_capacity: an empty index.
WithCapacityReused(capacity) == items

WithCapacity(capacity) == [vec |-> <<>>, map |-> <<>>]

HasOrd(its, ord) == ord >= 0 /\ ord < Len(its.vec)

\* get_by_ord / get_mut_by_ord, for HasOrd(its, ord)
ByOrd(its, ord) == its.vec[ord + 1]

HasNodeId(its, id) == id \in DOMAIN its.map /\ HasOrd(its, its.map[id])

\* get_by_node_id / get_mut_by_node_id, for HasNodeId(its, id)
ByNodeId(its, id) == its.vec[its.map[id] + 1]

VecInsertFront(vec, ord, item) == <<item>> \o vec

\* Vec::insert(ord, item)
VecInsert(vec, ord, item) ==
    SubSeq(vec, 1, ord) \o <<item>> \o SubSeq(vec, ord + 1, Len(vec))

\* EmbeddingHelperData::insert
Insert(its, ord, item) ==
    [ vec |-> VecInsert(its.vec, ord, item),
      map |-> [ x \in DOMAIN its.map \cup {item.node_id} |->
                  IF x = item.node_id THEN ord ELSE its.map[x] ] ]

(***************************************************************************)
(* Index build: create_from_node and its two variants.                     *)
(***************************************************************************)
\* x_extent = text.len() + 1
XExtent(text) == Utf8Len(text) + 1

YOrderFlat(depth) == 0

\* y_order = depth
YOrder(depth) == depth

ParentOrdPrevious(t, id, its) ==
    IF its.vec = <<>> THEN None ELSE Len(its.vec) - 1

\* node.parent().and_then(|p| items.get_by_node_id(&p.id()).map(|n| n.ord))
ParentOrd(t, id, its) ==
    LET p == t.links[id].parent
    IN  IF p = NoNode THEN None
        ELSE IF HasNodeId(its, p) THEN ByNodeId(its, p).ord ELSE None

NewInternalNode(t, ord, depth, id, its, text, emph) ==
    [ y_order              |-> YOrder(depth),
      x_center             |-> 0,
      x_extent             |-> XExtent(text),
      x_extent_of_children |-> XExtent(text),
      x_extent_children    |-> XExtent(text),
      text                 |-> text,
      is_emphasized        |-> emph,
      parent               |-> ParentOrd(t, id, its),
      ord                  |-> ord,
      node_id              |-> id ]

\* Each returns [panic, item]: slicing the source panics outside it or inside a character.
CreateFromNode(t, ord, depth, id, its) ==
    [ panic |-> FALSE,
      item  |-> NewInternalNode(t, ord, depth, id, its,
                                Stringify(t.links[id].value), Emphasize(t.links[id].value)) ]

CreateFromNodeWithSource(t, ord, depth, id, its, source) ==
    LET l == t.links[id]
    IN  IF SliceOk(source, l.start, l.end)
        THEN [ panic |-> FALSE,
               item  |-> NewInternalNode(t, ord, depth, id, its,
                                         Slice(source, l.start, l.end), FALSE) ]
        ELSE [ panic |-> TRUE,
               item  |-> NewInternalNode(t, ord, depth, id, its, <<>>, FALSE) ]

CreateFromNodeWithSourceAndDisplay(t, ord, depth, id, its, source) ==
    LET l == t.links[id]
    IN  IF HasChildren(t, id)
        THEN [ panic |-> FALSE,
               item  |-> NewInternalNode(t, ord, depth, id, its, Stringify(l.value), FALSE) ]
        ELSE CreateFromNodeWithSource(t, ord, depth, id, its, source)

\* The for_each body of the three create_initial_embedding_data functions.
CreateNode(c, t, ord, depth, id, its) ==
    IF c.mode \in {"embed", "embed_with"} THEN CreateFromNode(t, ord, depth, id, its)
    ELSE IF c.mode = "source" THEN CreateFromNodeWithSource(t, ord, depth, id, its, c.source)
    ELSE CreateFromNodeWithSourceAndDisplay(t, ord, depth, id, its, c.source)

TooManyRootsOffByOne(t) == Len(TreeChildren(t)) > 2

NotExactlyOneRoot(t) == Len(TreeChildren(t)) # 1

\* tree.children().count() > 1
TooManyRoots(t) == Len(TreeChildren(t)) > 1

(***************************************************************************)
(* Extent aggregation: the body of apply_children_x_extents for one event. *)
(***************************************************************************)
RECURSIVE SumChildren(_, _)
\* The fold over node.children(): a child without a record adds nothing.
SumChildren(its, children) ==
    IF children = <<>> THEN 0
    ELSE (IF HasNodeId(its, Head(children))
          THEN ByNodeId(its, Head(children)).x_extent_children ELSE 0)
         + SumChildren(its, Tail(children))

MaxOf(a, b) == IF a >= b THEN a ELSE b

ExtentChildrenLabelOnly(x_extent, x_extent_of_children) == x_extent

ExtentChildrenSumOnly(x_extent, x_extent_of_children) == x_extent_of_children

\* std::cmp::max(internal_node.x_extent, x_extent_of_children)
ExtentChildren(x_extent, x_extent_of_children) == MaxOf(x_extent, x_extent_of_children)

IsDown(event) == event = "Down"

\* if let Event::Up = event
IsUp(event) == event = "Up"

\* The children whose records the fold over node.children() reads.
ChildrenRead(t, its, id) == SelectSeq(NodeChildren(t, id), LAMBDA c : HasNodeId(its, c))

\* The Event::Up branch for node id.
ApplyUp(t, its, id) ==
    LET x_extent_of_children == SumChildren(its, NodeChildren(t, id))
    IN  IF HasNodeId(its, id)
        THEN LET n == ByNodeId(its, id)
             IN  [its EXCEPT !.vec[its.map[id] + 1] =
                    [n EXCEPT !.x_extent_of_children = x_extent_of_children,
                              !.x_extent_children =
                                  ExtentChildren(n.x_extent, x_extent_of_children)]]
        ELSE its

(***************************************************************************)
(* Centering: x_center_layer.  Results are [tag, items, msg] with tag Ok,  *)
(* Err (a LayouterError), Panic (a failed debug assertion or an overflow   *)
(* check) or Wrapped (the subtraction wrapped around: no overflow checks). *)
(***************************************************************************)
NodeIdsInLayerFromOne(l, its) ==
    LET InLayer(pos) == its.vec[pos].y_order = l
    IN  SelectSeq([i \in 1..Len(its.vec) |-> i], InLayer)

\* The ords of the records with y_order == layer, ascending.
NodeIdsInLayer(l, its) ==
    LET InLayer(ord) == its.vec[ord + 1].y_order = l
    IN  SelectSeq([i \in 1..Len(its.vec) |-> i - 1], InLayer)

\* The ords of ids whose record has parent p.
NodesInLayerPerParent(its, ids, p) ==
    LET OfParent(ord) == HasOrd(its, ord) /\ ByOrd(its, ord).parent = p
    IN  SelectSeq(ids, OfParent)

AnchorRoundedUp(its, ids, p, l, checks) ==
    IF p # None
    THEN IF HasOrd(its, p)
         THEN LET parent == ByOrd(its, p)
                  half == (parent.x_extent_of_children + 1) \div 2
              IN  IF parent.x_center >= half
                  THEN [tag |-> "Ok", val |-> parent.x_center - half, msg |-> ""]
                  ELSE IF checks
                  THEN [tag |-> "Panic", val |-> 0, msg |-> "attempt to subtract with overflow"]
                  ELSE [tag |-> "Wrapped", val |-> 0, msg |-> ""]
         ELSE [tag |-> "Err", val |-> 0, msg |-> "Some item expected here!"]
    ELSE IF checks /\ (l # 0 \/ Len(ids) # 1)
         THEN [tag |-> "Panic", val |-> 0, msg |-> "assertion failed"]
         ELSE [tag |-> "Ok", val |-> 0, msg |-> ""]

AnchorAtParentCenter(its, ids, p, l, checks) ==
    IF p # None /\ HasOrd(its, p)
    THEN [tag |-> "Ok", val |-> ByOrd(its, p).x_center, msg |-> ""]
    ELSE [tag |-> "Ok", val |-> 0, msg |-> ""]

AnchorByExtentChildren(its, ids, p, l, checks) ==
    IF p # None /\ HasOrd(its, p)
    THEN [tag |-> "Ok",
          val |-> ByOrd(its, p).x_center - ByOrd(its, p).x_extent_children \div 2,
          msg |-> ""]
    ELSE [tag |-> "Ok", val |-> 0, msg |-> ""]

\* The initial moving_x_center of the group of parent p: [tag, val, msg].
Anchor(its, ids, p, l, checks) ==
    IF p # None
    THEN IF HasOrd(its, p)
         THEN LET parent == ByOrd(its, p)
                  half == parent.x_extent_of_children \div 2
              IN  IF parent.x_center >= half
                  THEN [tag |-> "Ok", val |-> parent.x_center - half, msg |-> ""]
                  ELSE IF checks
                  THEN [tag |-> "Panic", val |-> 0, msg |-> "attempt to subtract with overflow"]
                  ELSE [tag |-> "Wrapped", val |-> 0, msg |-> ""]
         ELSE [tag |-> "Err", val |-> 0, msg |-> "Some item expected here!"]
    ELSE IF checks /\ (l # 0 \/ Len(ids) # 1)
         THEN [tag |-> "Panic", val |-> 0, msg |-> "assertion failed"]
         ELSE [tag |-> "Ok", val |-> 0, msg |-> ""]

AdvanceByOwnExtent(item) == item.x_extent

\* moving_x_center += placed_item.x_extent_children
Advance(item) == item.x_extent_children

XCenterAtLeft(moving_x_center, item) == moving_x_center

XCenterRoundUp(moving_x_center, item) ==
    moving_x_center + (item.x_extent_children + 1) \div 2

XCenterAdded(moving_x_center, item) ==
    item.x_center + moving_x_center + item.x_extent_children \div 2

XCenterOfLabel(moving_x_center, item) == moving_x_center + item.x_extent \div 2

\* placed_item.x_center = moving_x_center + placed_item.x_extent_children / 2
XCenter(moving_x_center, item) == moving_x_center + item.x_extent_children \div 2

RECURSIVE PlaceGroup(_, _, _)
\* The loop over nodes_in_layer_per_parent.
PlaceGroup(its, group, moving_x_center) ==
    IF group = <<>> THEN its
    ELSE LET ord == Head(group)
         IN  IF HasOrd(its, ord)
             THEN LET n == ByOrd(its, ord)
                  IN  PlaceGroup(
                        [its EXCEPT !.vec[ord + 1] =
                           [n EXCEPT !.x_center = XCenter(moving_x_center, n)]],
                        Tail(group), moving_x_center + Advance(n))
             ELSE PlaceGroup(its, Tail(group), moving_x_center)

\* One iteration of `for p in parents_in_layer`.
XCenterGroup(its, ids, p, l, checks) ==
    IF checks /\ \E i \in 1..Len(ids) : ~HasOrd(its, ids[i])
    THEN [tag |-> "Panic", items |-> its, msg |-> "Expecting existing node"]
    ELSE LET a == Anchor(its, ids, p, l, checks)
         IN  IF a.tag # "Ok" THEN [tag |-> a.tag, items |-> its, msg |-> a.msg]
             ELSE [tag |-> "Ok",
                   items |-> PlaceGroup(its, NodesInLayerPerParent(its, ids, p), a.val),
                   msg |-> ""]

RECURSIVE XCenterGroups(_, _, _, _, _)
XCenterGroups(its, ids, parents, l, checks) ==
    IF parents = <<>> THEN [tag |-> "Ok", items |-> its, msg |-> ""]
    ELSE LET r == XCenterGroup(its, ids, Head(parents), l, checks)
         IN  IF r.tag # "Ok" THEN r
             ELSE XCenterGroups(r.items, ids, Tail(parents), l, checks)

\* x_center_layer(l, items)
XCenterLayer(l, its, checks) ==
    LET node_ids_in_layer == NodeIdsInLayer(l, its)
    IN  IF \E i \in 1..Len(node_ids_in_layer) : ~HasOrd(its, node_ids_in_layer[i])
        THEN [tag |-> "Err", items |-> its, msg |-> "Expecting existing node"]
        ELSE LET parents_in_layer ==
                     [i \in 1..Len(node_ids_in_layer) |->
                        ByOrd(its, node_ids_in_layer[i]).parent]
             IN  XCenterGroups(its, node_ids_in_layer, parents_in_layer, l, checks)

HeightMinBy(its) ==
    IF its.vec = <<>> THEN 0
    ELSE SetMin({ its.vec[i].y_order : i \in 1..Len(its.vec) })

StayOnLayer(l) == l

SkipLayer(l) == l + 2

\* for l in 0..height + 1: the layer after l
NextLayer(l) == l + 1

\* apply_x_center's height: the largest y_order, 0 for an empty index.
Height(its) ==
    IF its.vec = <<>> THEN 0
    ELSE SetMax({ its.vec[i].y_order : i \in 1..Len(its.vec) })

(***************************************************************************)
(* Projection to the public Embedding.                                     *)
(***************************************************************************)
\* impl From<InternalNode> for EmbeddedNode
Into(e) ==
    [ y_order           |-> e.y_order,
      x_center          |-> e.x_center,
      x_extent          |-> e.x_extent,
      x_extent_children |-> e.x_extent_children,
      text              |-> e.text,
      is_emphasized     |-> e.is_emphasized,
      parent            |-> e.parent,
      ord               |-> e.ord ]

TransferResult(its) == [i \in 1..Len(its.vec) |-> Into(its.vec[i])]

(***************************************************************************)
(* Results of a call.                                                      *)
(***************************************************************************)
NoResult == [tag |-> "None", embedding |-> <<>>, msg |-> ""]

Ok(e) == [tag |-> "Ok", embedding |-> e, msg |-> ""]

\* LayouterError::from_description
Err(msg) == [tag |-> "Err", embedding |-> <<>>, msg |-> msg]

\* The call did not return: a panic, or coordinates that wrapped around.
Abort(tag, msg) == [tag |-> tag, embedding |-> <<>>, msg |-> msg]

NoCall == [mode |-> "none", source |-> <<>>]

\* file_name: None
NoFileName == "None"

\* static DEFAULT_DRAWER: SvgDrawer
DefaultDrawer == "SvgDrawer"

\* No embed_with has borrowed a Layouter yet.
NoReceiver == [file_name |-> NoFileName, drawer |-> "None", embedding |-> <<>>]

\* The Layouter the caller holds (self, without the tree reference).
SelfLayouter == [file_name |-> file_name, drawer |-> drawer, embedding |-> embedding]

(***************************************************************************)
(* The state machine.                                                      *)
(***************************************************************************)
\* Layouter::new on a tree: every forest of at most MaxNodes nodes with values
\* from Labels, the trees of the tests and TwoGroupTree.
Init ==
    /\ \/ \E n \in 0..MaxNodes : \E d \in DepthSeqs(n) : \E vals \in [1..n -> Labels] :
             tree = MkTree(d, vals, TRUE)
       \/ tree \in {SingleNodeTree, FiveNodeTree, TwoGroupTree}
    /\ pc = "idle"
    /\ call = NoCall
    /\ items = [vec |-> <<>>, map |-> <<>>]
    /\ walk_pos = 0
    /\ event_pos = 0
    /\ layer = 0
    /\ height = 0
    /\ result = NoResult
    /\ prev = NoResult
    /\ written = <<>>
    /\ reads = <<>>
    /\ file_name = NoFileName
    /\ drawer = DefaultDrawer
    /\ embedding = <<>>
    /\ receiver = NoReceiver
    /\ drawn = <<>>
    /\ writes = 0
    /\ write_result = NoResult

\* The start of an embed call: the index is allocated, then the roots are counted.
\* A call after the first repeats the first's entry point and arguments, or is an
\* embed_with.
StartEmbed(mode, source) ==
    /\ pc \in {"idle", "done"}
    /\ call = NoCall \/ call = [mode |-> mode, source |-> source] \/ mode = "embed_with"
    /\ prev' = IF pc = "done" THEN result ELSE prev
    /\ call' = [mode |-> mode, source |-> source]
    /\ items' = WithCapacity(Len(tree.links))
    /\ walk_pos' = 0
    /\ event_pos' = 0
    /\ layer' = 0
    /\ height' = 0
    /\ IF TooManyRoots(tree)
       THEN pc' = "done" /\ result' = Err("Currently we support only one root")
       ELSE pc' = "create" /\ result' = NoResult
    /\ written' = <<>>
    /\ reads' = <<>>
    /\ UNCHANGED <<tree, layouter>>

Embed == StartEmbed("embed", <<>>)

EmbedWithSource ==
    /\ pc \in {"idle", "done"}
    /\ \E source \in Sources(tree) : StartEmbed("source", source)

EmbedWithSourceAndDisplay ==
    /\ pc \in {"idle", "done"}
    /\ \E source \in Sources(tree) : StartEmbed("source_display", source)

\* One node of tree.walk().with_depths().enumerate(): its record is created and inserted.
CreateItem ==
    /\ pc = "create"
    /\ walk_pos < Len(Walk(tree))
    /\ LET e == Walk(tree)[walk_pos + 1]
           r == CreateNode(call, tree, walk_pos, e[1], e[2], items)
       IN  IF r.panic
           THEN /\ pc' = "panic"
                /\ result' = Abort("Panic", "byte index is out of bounds or not a char boundary")
                /\ UNCHANGED <<items, walk_pos>>
           ELSE /\ items' = Insert(items, walk_pos, r.item)
                /\ walk_pos' = walk_pos + 1
                /\ UNCHANGED <<pc, result>>
    /\ UNCHANGED <<tree, call, event_pos, layer, height, prev, pass, layouter>>

\* The walk is exhausted: create_initial_embedding_data returns Ok(items).
CreateDone ==
    /\ pc = "create"
    /\ walk_pos = Len(Walk(tree))
    /\ \E checks \in BOOLEAN :
         IF checks /\ Len(items.vec) # Cardinality(DOMAIN items.map)
         THEN pc' = "panic" /\ result' = Abort("Panic", "assertion failed")
         ELSE pc' = "extents" /\ UNCHANGED result
    /\ UNCHANGED <<tree, call, items, walk_pos, event_pos, layer, height, prev,
                   pass, layouter>>

\* One event of tree.walk_events() in apply_children_x_extents.
ApplyChildrenXExtentsEvent ==
    /\ pc = "extents"
    /\ event_pos < Len(WalkEvents(tree))
    /\ LET e == WalkEvents(tree)[event_pos + 1]
       IN  IF IsUp(e[1])
           THEN /\ items' = ApplyUp(tree, items, e[2])
                /\ reads' = reads \o ChildrenRead(tree, items, e[2])
                /\ written' = IF HasNodeId(items, e[2]) THEN Append(written, e[2])
                              ELSE written
           ELSE UNCHANGED <<items, pass>>
    /\ event_pos' = event_pos + 1
    /\ UNCHANGED <<tree, pc, call, walk_pos, layer, height, result, prev, layouter>>

\* The events are exhausted; apply_x_center computes the height.
ApplyChildrenXExtentsDone ==
    /\ pc = "extents"
    /\ event_pos = Len(WalkEvents(tree))
    /\ pc' = "center"
    /\ height' = Height(items)
    /\ layer' = 0
    /\ UNCHANGED <<tree, call, items, walk_pos, event_pos, result, prev, pass, layouter>>

\* One iteration of apply_x_center's loop `for l in 0..height + 1`.
XCenterLayerStep ==
    /\ pc = "center"
    /\ layer < height + 1
    /\ \E checks \in BOOLEAN :
         LET r == XCenterLayer(layer, items, checks)
         IN  IF r.tag = "Ok"
             THEN /\ items' = r.items
                  /\ layer' = NextLayer(layer)
                  /\ UNCHANGED <<pc, result>>
             ELSE /\ pc' = IF r.tag = "Err" THEN "done" ELSE "panic"
                  /\ result' = IF r.tag = "Err" THEN Err(r.msg) ELSE Abort(r.tag, r.msg)
                  /\ UNCHANGED <<items, layer>>
    /\ UNCHANGED <<tree, call, walk_pos, event_pos, height, prev, pass, layouter>>

WithEmbeddingAppended(old, new) == old \o new

\* Ok(Self { tree: self.tree, file_name: self.file_name, drawer: self.drawer, embedding }):
\* the embedding of the Layouter an embed method returns.
WithEmbedding(old, new) == new

\* embed_with(&self, ..): the borrowed Layouter after the call.
Borrowed(self, new) == self

\* The loop is over: the call returns Ok(transfer_result(items)), and the Layouter's
\* embed method Ok(Self { .. }) with this embedding.
TransferResultStep ==
    /\ pc = "center"
    /\ layer = height + 1
    /\ pc' = "done"
    /\ result' = Ok(TransferResult(items))
    /\ embedding' = WithEmbedding(embedding, TransferResult(items))
    /\ receiver' = IF call.mode = "embed_with" THEN Borrowed(SelfLayouter, TransferResult(items))
                   ELSE receiver
    /\ UNCHANGED <<tree, call, items, walk_pos, event_pos, layer, height, prev, pass,
                   file_name, drawer, drawn, writes, write_result>>

Next ==
    \/ Embed
    \/ EmbedWithSource
    \/ EmbedWithSourceAndDisplay
    \/ CreateItem
    \/ CreateDone
    \/ ApplyChildrenXExtentsEvent
    \/ ApplyChildrenXExtentsDone
    \/ XCenterLayerStep
    \/ TransferResultStep

Spec == Init /\ [][Next]_vars

(***************************************************************************)
(* The Layouter around the embedder: with_file_path and write.             *)
(***************************************************************************)
MaxWrites == 2

MaxLayouterNodes == 2

\* The path a caller passes to with_file_path.
Paths == {"out.svg"}

\* What Drawer::draw may return: Ok(()) or an error of its own.
DrawResults ==
    { [tag |-> "Ok", embedding |-> <<>>, msg |-> ""],
      [tag |-> "Err", embedding |-> <<>>, msg |-> "IoError"] }

NeverNone(fname) == FALSE

\* let Some(file_name) = &self.file_name else { return Err(..) }
IsNone(fname) == fname = NoFileName

\* The caller holds a Layouter: the one from Layouter::new, the one an embed method
\* returned in Ok, or, after an Err, the one embed_with had only borrowed (the other
\* embed methods take self by value).
LayouterHeld ==
    \/ pc = "idle"
    \/ pc = "done" /\ (result.tag = "Ok" \/ call.mode = "embed_with")

\* Layouter::with_file_path
WithFilePath(path) ==
    /\ LayouterHeld
    /\ file_name' = path
    /\ UNCHANGED <<tree, pc, call, items, walk_pos, event_pos, layer, height, result, prev,
                   pass, drawer, embedding, receiver, drawn, writes, write_result>>

\* The drawers a caller passes to with_drawer.
Drawers == {"Custom"}

\* Layouter::with_drawer
WithDrawer(d) ==
    /\ LayouterHeld
    /\ drawer' = d
    /\ UNCHANGED <<tree, pc, call, items, walk_pos, event_pos, layer, height, result, prev,
                   pass, file_name, embedding, receiver, drawn, writes, write_result>>

\* Layouter::embed_with: Embedder::embed on self.tree, self only borrowed.
EmbedWith ==
    /\ LayouterHeld
    /\ StartEmbed("embed_with", <<>>)

\* Layouter::write
Write ==
    /\ LayouterHeld
    /\ writes < MaxWrites
    /\ writes' = writes + 1
    /\ IF IsNone(file_name)
       THEN /\ write_result' =
                   Err("No output file name given - use Layouter::with_file_path.")
            /\ UNCHANGED drawn
       ELSE \E returned \in DrawResults :
               /\ drawn' = Append(drawn, [drawer    |-> drawer,
                                          file_name |-> file_name,
                                          embedding |-> embedding,
                                          returned  |-> returned])
               /\ write_result' = returned
    /\ UNCHANGED <<tree, pc, call, items, walk_pos, event_pos, layer, height, result, prev,
                   pass, file_name, drawer, embedding, receiver>>

InitLayouter == Init /\ Len(tree.links) <= MaxLayouterNodes

NextLayouter ==
    \/ Next
    \/ \E path \in Paths : WithFilePath(path)
    \/ Write

SpecLayouter == InitLayouter /\ [][NextLayouter]_vars

(***************************************************************************)
(* A call runs to its end: embed is sequential code, so a step that is     *)
(* possible is taken.                                                      *)
(***************************************************************************)
MaxFairNodes == 2

\* A tree of three layers: a root, its child and its grandchild.
ChainTree == MkTree(<<0, 1, 2>>, <<Num(0), Tok(<<>>), Tok(<<233>>)>>, TRUE)

InitFair == Init /\ (Len(tree.links) <= MaxFairNodes \/ tree = ChainTree)

\* The steps of a running call.
CallStep ==
    \/ CreateItem
    \/ CreateDone
    \/ ApplyChildrenXExtentsEvent
    \/ ApplyChildrenXExtentsDone
    \/ XCenterLayerStep
    \/ TransferResultStep

SpecFair == InitFair /\ [][Next]_vars /\ WF_vars(CallStep)

(***************************************************************************)
(* The Layouter with all its methods: with_drawer and embed_with too.      *)
(***************************************************************************)
MaxFrameNodes == 1

\* Two top-level nodes: every embed method returns Err.
TwoRootsForest == MkTree(<<0, 0>>, <<Num(0), Tok(<<233>>)>>, TRUE)

InitFrame == Init /\ (Len(tree.links) <= MaxFrameNodes \/ tree = TwoRootsForest)

NextFrame ==
    \/ NextLayouter
    \/ \E d \in Drawers : WithDrawer(d)
    \/ EmbedWith

SpecFrame == InitFrame /\ [][NextFrame]_vars

(***************************************************************************)
(* The stages after the index build, started on an index in which the      *)
(* record of one node cannot be found by its identity.                     *)
(***************************************************************************)
RECURSIVE BuildFrom(_, _, _, _)
\* The for_each of create_initial_embedding_data from walk position k on.
BuildFrom(c, t, k, its) ==
    IF k = Len(Walk(t)) THEN its
    ELSE LET e == Walk(t)[k + 1]
         IN  BuildFrom(c, t, k + 1, Insert(its, k, CreateNode(c, t, k, e[1], e[2], its).item))

\* The index create_initial_embedding_data returns for Embedder::embed.
BuildIndex(t) ==
    BuildFrom([mode |-> "embed", source |-> <<>>], t, 0, WithCapacity(Len(t.links)))

\* The index its without the entry of node id: get_by_node_id(id) is None.
WithoutEntry(its, id) ==
    [its EXCEPT !.map = [x \in DOMAIN its.map \ {id} |-> its.map[x]]]

InitStages ==
    /\ \E n \in 1..MaxNodes : \E d \in DepthSeqs(n) : \E vals \in [1..n -> Labels] :
          tree = MkTree(d, vals, TRUE)
    /\ ~TooManyRoots(tree)
    /\ pc = "extents"
    /\ call = [mode |-> "embed", source |-> <<>>]
    /\ \E id \in DOMAIN tree.links : items = WithoutEntry(BuildIndex(tree), id)
    /\ walk_pos = Len(tree.links)
    /\ event_pos = 0
    /\ layer = 0
    /\ height = 0
    /\ result = NoResult
    /\ prev = NoResult
    /\ written = <<>>
    /\ reads = <<>>
    /\ file_name = NoFileName
    /\ drawer = DefaultDrawer
    /\ embedding = <<>>
    /\ receiver = NoReceiver
    /\ drawn = <<>>
    /\ writes = 0
    /\ write_result = NoResult

NextStages ==
    \/ ApplyChildrenXExtentsEvent
    \/ ApplyChildrenXExtentsDone
    \/ XCenterLayerStep
    \/ TransferResultStep

SpecStages == InitStages /\ [][NextStages]_vars

(***************************************************************************)
(* Properties.  The tree is read through its links, independently of the   *)
(* iterators the embedder uses.                                            *)
(***************************************************************************)
NodeCount == Len(tree.links)

TopLevelCount == Cardinality({ i \in DOMAIN tree.links : tree.links[i].parent = NoNode })

RECURSIVE PreOrderForest(_)
\* The nodes of a sequence of sibling subtrees, depth first.
PreOrderForest(ids) ==
    IF ids = <<>> THEN <<>>
    ELSE <<Head(ids)>>
         \o PreOrderForest(SelectSeq([i \in 1..NodeCount |-> i],
                                     LAMBDA c : tree.links[c].parent = Head(ids)))
         \o PreOrderForest(Tail(ids))

PreOrder ==
    PreOrderForest(SelectSeq([i \in 1..NodeCount |-> i],
                             LAMBDA c : tree.links[c].parent = NoNode))

RECURSIVE DepthOf(_)
DepthOf(id) ==
    IF tree.links[id].parent = NoNode THEN 0 ELSE 1 + DepthOf(tree.links[id].parent)

\* A call returned Ok(embedding).
Returned == pc = "done" /\ result.tag = "Ok"

Emb == result.embedding

\* The record of node id in the returned embedding: the one at id's position in
\* the depth-first order po.
Rec(po, id) == Emb[CHOOSE i \in 1..Len(po) : po[i] = id]

\* The direct children of p in sibling order (node ids ascend in opening order).
Kids(p) == SelectSeq([i \in 1..NodeCount |-> i], LAMBDA c : tree.links[c].parent = p)

RECURSIVE SumKids(_, _)
SumKids(po, cs) ==
    IF cs = <<>> THEN 0
    ELSE Rec(po, Head(cs)).x_extent_children + SumKids(po, Tail(cs))

\* The sum of x_extent_children over the direct children of p.
ExtentOfChildren(po, p) == SumKids(po, Kids(p))

\* C1: for a tree with more than one top-level node every entry point returns the
\* multiple-roots error, with no embedding, before the walk starts and before any
\* record is created.
C1_MultipleRootsFailUpFront ==
    TopLevelCount > 1 =>
        /\ pc \in {"idle", "done"}
        /\ items.vec = <<>>
        /\ walk_pos = 0
        /\ event_pos = 0
        /\ pc = "done" => /\ result.tag = "Err"
                          /\ result.msg = "Currently we support only one root"
                          /\ result.embedding = <<>>

C1_Witness ==
    /\ TopLevelCount > 1
    /\ pc = "done"
    /\ call.mode = "source_display"
    /\ result.tag = "Err"
    /\ prev.tag = "Err"

\* C2: in a returned embedding, siblings a before b sharing a parent satisfy
\* a.x_center + a.x_extent_children/2 <= b.x_center - b.x_extent_children/2.
C2_NoOverlap ==
    Returned =>
        LET po == PreOrder
        IN  \A p \in DOMAIN tree.links :
                LET cs == Kids(p)
                IN  \A i, j \in 1..Len(cs) :
                        i < j =>
                            LET a == Rec(po, cs[i])
                                b == Rec(po, cs[j])
                            IN  a.x_center + a.x_extent_children \div 2
                                    <= b.x_center - b.x_extent_children \div 2

\* Two siblings of which the first is wider than its own label and of odd width.
C2_Witness ==
    /\ Returned
    /\ \E p \in DOMAIN tree.links :
          LET cs == Kids(p)
          IN  /\ Len(cs) >= 2
              /\ Rec(PreOrder, cs[1]).x_extent_children > Rec(PreOrder, cs[1]).x_extent
              /\ Rec(PreOrder, cs[1]).x_extent_children % 2 = 1

\* C3: in a returned embedding, every non-root node's x_center lies within
\* [parent.x_center - S/2, parent.x_center + S/2], S the sum of x_extent_children
\* over the parent's direct children.
C3_Centering ==
    Returned =>
        LET po == PreOrder
        IN  \A id \in DOMAIN tree.links :
                LET p == tree.links[id].parent
                IN  p # NoNode =>
                        LET half == ExtentOfChildren(po, p) \div 2
                            c == Rec(po, p).x_center
                        IN  /\ c - half <= Rec(po, id).x_center
                            /\ Rec(po, id).x_center <= c + half

\* A last child on the upper limit, under a parent whose children have an odd total width.
C3_Witness ==
    /\ Returned
    /\ \E id \in DOMAIN tree.links :
          LET p == tree.links[id].parent
          IN  /\ p # NoNode
              /\ Len(Kids(p)) >= 2
              /\ ExtentOfChildren(PreOrder, p) % 2 = 1
              /\ Rec(PreOrder, id).x_center =
                    Rec(PreOrder, p).x_center + ExtentOfChildren(PreOrder, p) \div 2

\* C4: after a successful embed every record has x_extent_children =
\* max(x_extent, S), S the sum of x_extent_children over the node's direct children
\* (0 without children); so x_extent_children >= x_extent >= 1.
C4_ExtentChildrenIsMax ==
    Returned =>
        LET po == PreOrder
        IN  \A id \in DOMAIN tree.links :
                LET r == Rec(po, id)
                    S == ExtentOfChildren(po, id)
                IN  /\ r.x_extent_children = (IF r.x_extent >= S THEN r.x_extent ELSE S)
                    /\ r.x_extent_children >= r.x_extent
                    /\ r.x_extent >= 1

\* One node whose label is wider than its children, another whose children are wider.
C4_Witness ==
    /\ Returned
    /\ call.mode = "embed"
    /\ \E a, b \in DOMAIN tree.links :
          /\ Kids(a) # <<>>
          /\ Rec(PreOrder, a).x_extent > ExtentOfChildren(PreOrder, a)
          /\ Rec(PreOrder, b).x_extent < ExtentOfChildren(PreOrder, b)

Compared(e) == <<e.text, e.ord, e.y_order, e.x_center, e.x_extent, e.x_extent_children>>

\* C7: the five-node tree 0 -> {1 -> {3, 4}, 2} gives five records, (label: ord,
\* y_order, x_center, x_extent, x_extent_children) = (0: 0,0,3,2,6), (1: 1,1,2,2,4),
\* (3: 2,2,1,2,2), (4: 3,2,3,2,2), (2: 4,1,5,2,2).
C7_FiveNodeTree ==
    (pc \in {"done", "panic"} /\ call.mode = "embed" /\ tree = FiveNodeTree) =>
        /\ result.tag = "Ok"
        /\ [i \in 1..Len(Emb) |-> Compared(Emb[i])] =
             << <<Decimal(0), 0, 0, 3, 2, 6>>,
                <<Decimal(1), 1, 1, 2, 2, 4>>,
                <<Decimal(3), 2, 2, 1, 2, 2>>,
                <<Decimal(4), 3, 2, 3, 2, 2>>,
                <<Decimal(2), 4, 1, 5, 2, 2>> >>

C7_Witness ==
    /\ tree = FiveNodeTree
    /\ call.mode = "embed"
    /\ Returned
    /\ Len(Emb) = 5

\* C8 (as claimed): a single node whose text has k characters gives one record with
\* ord 0, y_order 0, no parent, x_extent = x_extent_children = k + 1 and
\* x_center = (k + 1) div 2.
C8_SingleNodeByChars ==
    (pc \in {"done", "panic"} /\ call.mode = "embed" /\ NodeCount = 1) =>
        /\ result.tag = "Ok"
        /\ Len(Emb) = 1
        /\ LET k == CharCount(Emb[1].text)
           IN  /\ Emb[1].ord = 0
               /\ Emb[1].y_order = 0
               /\ Emb[1].parent = None
               /\ Emb[1].x_extent = k + 1
               /\ Emb[1].x_extent_children = k + 1
               /\ Emb[1].x_center = (k + 1) \div 2

\* C9: embedding a tree without nodes succeeds with an empty embedding: no error, no
\* panic, no record.
C9_EmptyTree ==
    NodeCount = 0 =>
        /\ pc # "panic"
        /\ items.vec = <<>>
        /\ pc = "done" => result = Ok(<<>>)

\* The pass over layer 0 has run and the call has returned.
C9_Witness ==
    /\ NodeCount = 0
    /\ pc = "done"
    /\ layer = 1
    /\ result = Ok(<<>>)

Item(po, id) == items.vec[CHOOSE i \in 1..Len(po) : po[i] = id]

\* The left edge of the span allotted to record r.
LeftEdge(r) == r.x_center - r.x_extent_children \div 2

\* C11: after embed, for every node with at least one child the children occupy one
\* block that starts at parent.x_center - x_extent_of_children/2 and has width
\* x_extent_of_children, the sum of the children's x_extent_children; so
\* block_start + x_extent_of_children/2 = parent.x_center.
C11_ParentOverChildrenBlock ==
    Returned =>
        LET po == PreOrder
        IN  \A p \in DOMAIN tree.links :
                LET cs == Kids(p)
                IN  cs # <<>> =>
                        LET S == ExtentOfChildren(po, p)
                            block_start == LeftEdge(Rec(po, cs[1]))
                            last == Rec(po, cs[Len(cs)])
                            block_end == LeftEdge(last) + last.x_extent_children
                        IN  /\ Item(po, p).x_extent_of_children = S
                            /\ block_start = Rec(po, p).x_center - S \div 2
                            /\ block_end - block_start = S
                            /\ block_start + S \div 2 = Rec(po, p).x_center

\* A parent whose label is wider than the block of its two children, under a parent
\* whose block has an odd width.
C11_Witness ==
    /\ Returned
    /\ \E p, q \in DOMAIN tree.links :
          /\ Len(Kids(p)) >= 2
          /\ Rec(PreOrder, p).x_extent > ExtentOfChildren(PreOrder, p)
          /\ tree.links[p].parent = q
          /\ ExtentOfChildren(PreOrder, q) % 2 = 1

\* The depth of the deepest node, 0 for a tree without nodes.
MaxDepth == IF NodeCount = 0 THEN 0 ELSE SetMax({ DepthOf(id) : id \in DOMAIN tree.links })

RECURSIVE FinalExtent(_, _)
\* The width a node must occupy: the larger of its label's x_extent and the widths
\* of its children together.
FinalExtent(po, id) ==
    LET cs == Kids(id)
        sum[k \in 0..Len(cs)] == IF k = 0 THEN 0 ELSE sum[k - 1] + FinalExtent(po, cs[k])
    IN  IF Item(po, id).x_extent >= sum[Len(cs)]
        THEN Item(po, id).x_extent ELSE sum[Len(cs)]

RECURSIVE FinalLeft(_, _)
\* The left edge of a node's span: 0 for the root, otherwise the start of the block
\* centred under the parent plus the widths of the siblings before it.
FinalLeft(po, id) ==
    LET p == tree.links[id].parent
    IN  IF p = NoNode THEN 0
        ELSE LET cs == Kids(p)
                 before[k \in 0..Len(cs)] ==
                     IF k = 0 THEN 0 ELSE before[k - 1] + FinalExtent(po, cs[k])
                 me == CHOOSE k \in 1..Len(cs) : cs[k] = id
             IN  FinalLeft(po, p) + FinalExtent(po, p) \div 2
                    - before[Len(cs)] \div 2 + before[me - 1]

FinalCenter(po, id) == FinalLeft(po, id) + FinalExtent(po, id) \div 2

\* C12: an embed call that returns, returns either Ok with a complete embedding (one
\* record per node, each with its final width and centre, every layer included) or
\* Err with no embedding; no embedding exists before the call has returned, and none
\* after a panic.
C12_AllOrNothing ==
    /\ pc # "done" => result.embedding = <<>> /\ result.tag # "Ok"
    /\ pc = "done" =>
          \/ /\ result.tag = "Err"
             /\ result.embedding = <<>>
          \/ /\ result.tag = "Ok"
             /\ Len(Emb) = NodeCount
             /\ layer = MaxDepth + 1
             /\ LET po == PreOrder
                IN  \A i \in 1..Len(Emb) :
                       /\ Emb[i].y_order = DepthOf(po[i])
                       /\ Emb[i].x_extent_children = FinalExtent(po, po[i])
                       /\ Emb[i].x_center = FinalCenter(po, po[i])

\* A returned embedding of three layers.
C12_Witness ==
    /\ Returned
    /\ MaxDepth >= 2
    /\ Len(Emb) >= 4
    /\ \E i \in 1..Len(Emb) : Emb[i].y_order = 2 /\ Emb[i].x_center > Emb[i].x_extent

C14_SourceEmbedReturns ==
    call.mode \in {"source", "source_display"} => pc # "panic"

C16_ParentIsOrdOfParentRecord ==
    (Returned /\ Emb # <<>>) =>
        LET po == PreOrder
        IN  /\ Cardinality({ i \in 1..Len(Emb) : Emb[i].parent = None }) = 1
            /\ Emb[1].parent = None
            /\ Emb[1].ord = 0
            /\ Emb[1].y_order = 0
            /\ \A i \in 2..Len(Emb) :
                  /\ tree.links[po[i]].parent # NoNode
                  /\ Emb[i].parent = Rec(po, tree.links[po[i]].parent).ord

\* A record after its elder sibling's subtree: its parent is not the record before it.
C16_Witness ==
    /\ Returned
    /\ Len(Emb) >= 4
    /\ \E i \in 3..Len(Emb) : Emb[i].parent = 0 /\ Emb[i - 1].parent # 0

\* C17 (as claimed): every record's x_extent is the number of characters of its text
\* plus 1, for every text, also one with characters of more than one byte.
C17_ExtentByChars ==
    \A i \in 1..Len(items.vec) :
        items.vec[i].x_extent = CharCount(items.vec[i].text) + 1

\* C18 (as claimed): once the extent aggregation has run, every node without
\* children has x_extent_of_children = 0 and x_extent_children = x_extent.
C18_LeafExtents ==
    pc \in {"center", "done"} =>
        \A i \in 1..Len(items.vec) :
            Kids(items.vec[i].node_id) = <<>> =>
                /\ items.vec[i].x_extent_of_children = 0
                /\ items.vec[i].x_extent_children = items.vec[i].x_extent

NoDuplicates(seq) == \A i, j \in 1..Len(seq) : i < j => seq[i] # seq[j]

Range(seq) == { seq[i] : i \in 1..Len(seq) }

\* x_extent_children of node id in the index its.
WidthIn(its, po, id) == its.vec[CHOOSE i \in 1..Len(po) : po[i] = id].x_extent_children

\* C19: in apply_children_x_extents a node's record is written at most once and a
\* child is read by its parent's fold exactly once; a child holds its final
\* x_extent_children when it is read, and the value does not change afterwards.
\* When the pass is over the nodes with children have been written and every node
\* with a parent has been read.
C19_ChildrenFinalWhenRead ==
    /\ [](/\ NoDuplicates(written)
          /\ NoDuplicates(reads)
          /\ (pc = "center" \/ Returned) =>
                /\ Range(written) = { id \in DOMAIN tree.links : Kids(id) # <<>> }
                /\ Range(reads) = { id \in DOMAIN tree.links :
                                      tree.links[id].parent # NoNode })
    /\ [][ LET po == PreOrder
           IN  /\ \A k \in (Len(reads) + 1)..Len(reads') :
                     WidthIn(items, po, reads'[k]) = FinalExtent(po, reads'[k])
               /\ \A k \in (Len(written) + 1)..Len(written') :
                     /\ \A c \in Range(Kids(written'[k])) : c \in Range(reads')
                     /\ WidthIn(items', po, written'[k]) = FinalExtent(po, written'[k])
               /\ \A c \in Range(reads) \cap Range(reads') :
                     WidthIn(items', po, c) = WidthIn(items, po, c)
         ]_vars

\* In the middle of the pass a child has been read that is itself wider than its
\* label, because of its own children.
C19_Witness ==
    /\ pc = "extents"
    /\ event_pos < Len(WalkEvents(tree))
    /\ \E k \in 1..Len(reads) :
          LET r == Item(PreOrder, reads[k])
          IN  r.x_extent_children > r.x_extent

RECURSIVE Distinct(_)
\* seq without the repetitions of its elements, in the order of first occurrence.
Distinct(seq) ==
    IF seq = <<>> THEN <<>>
    ELSE LET front == Distinct(SubSeq(seq, 1, Len(seq) - 1))
             last == seq[Len(seq)]
         IN  IF last \in Range(front) THEN front ELSE Append(front, last)

\* C21: for the layer about to be processed, running the loop of x_center_layer over
\* the parents in any order, with the repetitions the code makes (one iteration per
\* node of the layer) or with each parent once, gives the same index, the one the
\* code's own order gives.
C21_GroupOrderIrrelevant ==
    (pc = "center" /\ layer <= height) =>
        LET ids == NodeIdsInLayer(layer, items)
            parents == [i \in 1..Len(ids) |-> ByOrd(items, ids[i]).parent]
            once == Distinct(parents)
            code == XCenterLayer(layer, items, FALSE)
        IN  /\ code.tag = "Ok"
            /\ XCenterGroups(items, ids, once, layer, FALSE) = code
            /\ \A f \in Permutations(1..Len(parents)) :
                  XCenterGroups(items, ids, [i \in 1..Len(parents) |-> parents[f[i]]],
                                layer, FALSE) = code
            /\ \A f \in Permutations(1..Len(once)) :
                  XCenterGroups(items, ids, [i \in 1..Len(once) |-> once[f[i]]],
                                layer, FALSE) = code

\* A layer with two parent groups, one of them of two nodes, is about to be processed.
C21_Witness ==
    /\ pc = "center"
    /\ layer <= height
    /\ LET ids == NodeIdsInLayer(layer, items)
       IN  \E i, j, k \in 1..Len(ids) :
              /\ i # j
              /\ ByOrd(items, ids[i]).parent = ByOrd(items, ids[j]).parent
              /\ ByOrd(items, ids[k]).parent # ByOrd(items, ids[i]).parent
              /\ ByOrd(items, ids[k]).x_extent_children # ByOrd(items, ids[i]).x_extent_children

\* C22: in a returned embedding siblings are packed from left to right without gaps
\* in sibling order: the root's span starts at 0, a first child's left edge is
\* parent.x_center - parent.x_extent_of_children / 2, every further sibling's left
\* edge is its predecessor's left edge plus the predecessor's x_extent_children, and
\* every x_center is the left edge plus x_extent_children / 2.
C22_PackedWithoutGaps ==
    Returned =>
        LET po == PreOrder
        IN  \A id \in DOMAIN tree.links :
                LET r == Rec(po, id)
                    p == tree.links[id].parent
                    cs == Kids(p)
                IN  /\ r.x_center >= r.x_extent_children \div 2
                    /\ r.x_center = LeftEdge(r) + r.x_extent_children \div 2
                    /\ p = NoNode => LeftEdge(r) = 0
                    /\ p # NoNode =>
                          /\ id = cs[1] =>
                                LeftEdge(r) = Rec(po, p).x_center
                                                - Item(po, p).x_extent_of_children \div 2
                          /\ \A k \in 2..Len(cs) :
                                id = cs[k] =>
                                    LeftEdge(r) = LeftEdge(Rec(po, cs[k - 1]))
                                                    + Rec(po, cs[k - 1]).x_extent_children

\* Three siblings, the first two of odd width, under a parent whose label is as wide
\* as the three together.
C22_Witness ==
    /\ Returned
    /\ \E p \in DOMAIN tree.links :
          LET cs == Kids(p)
          IN  /\ Rec(PreOrder, p).x_extent = ExtentOfChildren(PreOrder, p)
              /\ Len(cs) >= 3
              /\ Rec(PreOrder, cs[1]).x_extent_children % 2 = 1
              /\ Rec(PreOrder, cs[2]).x_extent_children % 2 = 1

\* C23: in a returned embedding two distinct records of the same y_order, siblings
\* or not, have disjoint spans [left, left + x_extent_children), left being
\* x_center - x_extent_children / 2.
C23_LayerSpansDisjoint ==
    Returned =>
        \A i, j \in 1..Len(Emb) :
            (i # j /\ Emb[i].y_order = Emb[j].y_order) =>
                \/ LeftEdge(Emb[i]) + Emb[i].x_extent_children <= LeftEdge(Emb[j])
                \/ LeftEdge(Emb[j]) + Emb[j].x_extent_children <= LeftEdge(Emb[i])

\* Two nodes of one layer under different parents, the parent of one of them with a
\* block of children wider than its own label.
C23_Witness ==
    /\ Returned
    /\ \E a, b \in DOMAIN tree.links :
          LET p == tree.links[a].parent
              q == tree.links[b].parent
          IN  /\ p # NoNode
              /\ q # NoNode
              /\ p # q
              /\ DepthOf(a) = DepthOf(b)
              /\ ExtentOfChildren(PreOrder, q) > Rec(PreOrder, q).x_extent

\* C24: in a returned embedding the block of a node's children lies inside the
\* node's own span, and every record's span lies within [0, root.x_extent_children].
C24_ChildrenInsideSpan ==
    Returned =>
        LET po == PreOrder
        IN  /\ \A p \in DOMAIN tree.links :
                  LET cs == Kids(p)
                  IN  cs # <<>> =>
                          LET last == Rec(po, cs[Len(cs)])
                          IN  /\ LeftEdge(Rec(po, p)) <= LeftEdge(Rec(po, cs[1]))
                              /\ LeftEdge(last) + last.x_extent_children
                                    <= LeftEdge(Rec(po, p)) + Rec(po, p).x_extent_children
            /\ \A i \in 1..Len(Emb) :
                  /\ 0 <= LeftEdge(Emb[i])
                  /\ LeftEdge(Emb[i]) + Emb[i].x_extent_children <= Emb[1].x_extent_children

\* A node that is not the first of its siblings, with a label wider than its
\* children together, and a node as wide as its children, the width being odd.
C24_Witness ==
    /\ Returned
    /\ \E p, q \in DOMAIN tree.links :
          /\ Kids(p) # <<>>
          /\ LeftEdge(Rec(PreOrder, p)) > 0
          /\ Rec(PreOrder, p).x_extent > ExtentOfChildren(PreOrder, p)
          /\ Kids(q) # <<>>
          /\ Rec(PreOrder, q).x_extent_children = ExtentOfChildren(PreOrder, q)
          /\ ExtentOfChildren(PreOrder, q) % 2 = 1

\* C25: the subtraction parent.x_center - parent.x_extent_of_children / 2 never
\* underflows: when a layer is about to be processed, every parent of a node of the
\* layer has a record with x_center >= x_extent_of_children / 2, and no call ends
\* with a subtraction overflow or continues with a wrapped value.
C25_NoUnderflow ==
    /\ (pc = "center" /\ layer <= height) =>
          LET ids == NodeIdsInLayer(layer, items)
          IN  \A i \in 1..Len(ids) :
                  LET p == ByOrd(items, ids[i]).parent
                  IN  p # None =>
                          /\ HasOrd(items, p)
                          /\ ByOrd(items, p).x_center
                                >= ByOrd(items, p).x_extent_of_children \div 2
    /\ result.tag # "Wrapped"
    /\ result.msg # "attempt to subtract with overflow"

\* The children of a parent are about to be placed whose x_center equals half the
\* width of its children, so that the difference is exactly 0.
C25_Witness ==
    /\ pc = "center"
    /\ layer <= height
    /\ LET ids == NodeIdsInLayer(layer, items)
       IN  \E i \in 1..Len(ids) :
              LET p == ByOrd(items, ids[i]).parent
              IN  /\ p # None
                  /\ ByOrd(items, p).x_extent_of_children >= 2
                  /\ ByOrd(items, p).x_center = ByOrd(items, p).x_extent_of_children \div 2

\* C26: for a tree with at most one top-level node, embed never panics and returns
\* Ok: every parent ord stored in a record and every ord collected for a layer
\* refers to a record of the index, so that neither "Expecting existing node" nor
\* "Some item expected here!" is returned.
C26_EmbedReturnsOk ==
    (call.mode = "embed" /\ TopLevelCount <= 1) =>
        /\ pc # "panic"
        /\ pc = "done" => result.tag = "Ok"
        /\ \A i \in 1..Len(items.vec) :
              items.vec[i].parent # None => HasOrd(items, items.vec[i].parent)
        /\ pc = "center" =>
              LET ids == NodeIdsInLayer(layer, items)
              IN  \A i \in 1..Len(ids) : HasOrd(items, ids[i])

\* embed has returned Ok for a tree of three layers, whose last layer was looked up
\* through parent ords other than the root's.
C26_Witness ==
    /\ Returned
    /\ call.mode = "embed"
    /\ TopLevelCount = 1
    /\ MaxDepth >= 2
    /\ \E i \in 1..Len(items.vec) :
          items.vec[i].parent # None /\ items.vec[i].parent > 0

\* The embedding of the most recent embed call that returned Ok, empty if none did.
LastOk ==
    IF result.tag = "Ok" THEN result.embedding
    ELSE IF prev.tag = "Ok" THEN prev.embedding ELSE <<>>

\* C27: the Layouter's embedding is empty until an embed call has returned Ok and
\* from then on is exactly the embedding of the most recent call that did; it
\* changes only when an embed call returns Ok, to what that call computed (nothing
\* is appended); with_file_path, with_drawer and write leave the tree and the
\* embedding as they are, file name and drawer do not change during an embed call,
\* and the Layouter embed_with borrowed is after the call what it was before.
C27_LayouterFrame ==
    /\ [](embedding = LastOk)
    /\ [][ /\ tree' = tree
           /\ embedding' # embedding =>
                 /\ pc = "center"
                 /\ pc' = "done"
                 /\ result'.tag = "Ok"
                 /\ embedding' = result'.embedding
                 /\ embedding' = TransferResult(items)
           /\ (file_name' # file_name \/ drawer' # drawer \/ writes' # writes) =>
                 /\ embedding' = embedding
                 /\ receiver' = receiver
                 /\ pc' = pc
                 /\ result' = result
           /\ pc \notin {"idle", "done"} => (file_name' = file_name /\ drawer' = drawer)
           /\ (call'.mode = "embed_with" /\ result.tag # "Ok" /\ result'.tag = "Ok") =>
                 receiver' = SelfLayouter
           /\ receiver' # receiver =>
                 (call'.mode = "embed_with" /\ result.tag # "Ok" /\ result'.tag = "Ok") ]_vars

\* embed_with has returned a Layouter whose embedding differs from the one of the
\* Layouter it borrowed, which another embed method had filled; a file name and a
\* drawer were set and write was called.
C27_Witness ==
    /\ pc = "done"
    /\ call.mode = "embed_with"
    /\ result.tag = "Ok"
    /\ receiver.embedding # <<>>
    /\ receiver.embedding # embedding
    /\ file_name \in Paths
    /\ drawer \in Drawers
    /\ receiver.drawer = DefaultDrawer
    /\ writes >= 1

\* C28: embed terminates. A call that has started returns or panics, and embed with
\* a stringify function returns Ok or Err; the positions of the three passes advance
\* by one step at a time, and when the call returns Ok the index build has taken
\* every node of the walk, the aggregation pass every walk event, and the centering
\* pass has run over the layers 0..max_depth.
C28_Terminates ==
    /\ (pc \in {"create", "extents", "center"})
          ~> (/\ pc \in {"done", "panic"}
              /\ call.mode = "embed" => (pc = "done" /\ result.tag \in {"Ok", "Err"}))
    /\ [][ /\ walk_pos' \in {0, walk_pos, walk_pos + 1}
           /\ event_pos' \in {0, event_pos, event_pos + 1}
           /\ layer' \in {0, layer, layer + 1} ]_vars
    /\ [](/\ walk_pos <= NodeCount
          /\ event_pos <= Len(WalkEvents(tree))
          /\ layer <= MaxDepth + 1)
    /\ [](Returned =>
            /\ walk_pos = NodeCount
            /\ Len(Walk(tree)) = NodeCount
            /\ event_pos = Len(WalkEvents(tree))
            /\ height = MaxDepth
            /\ layer = MaxDepth + 1)

\* A call on a tree of three layers has returned Ok after three nodes, all walk
\* events and three layers.
C28_Witness ==
    /\ Returned
    /\ NodeCount = 3
    /\ MaxDepth = 2
    /\ walk_pos = 3
    /\ event_pos = Len(WalkEvents(tree))
    /\ event_pos > NodeCount
    /\ layer = 3

(***************************************************************************)
(* VisualizeEmbedder (src/src/embedder.rs): embed as one step.             *)
(***************************************************************************)
\* VisualizeEmbedder::create_from_node: the text is the value's visualization, both
\* children extents start at 0.
VisualizeCreateFromNode(t, ord, depth, id, its) ==
    [ y_order              |-> depth,
      x_center             |-> 0,
      x_extent             |-> Utf8Len(Stringify(t.links[id].value)) + 1,
      x_extent_of_children |-> 0,
      x_extent_children    |-> 0,
      text                 |-> Stringify(t.links[id].value),
      is_emphasized        |-> Emphasize(t.links[id].value),
      parent               |-> ParentOrd(t, id, its),
      ord                  |-> ord,
      node_id              |-> id ]

RECURSIVE VisualizeCreateFrom(_, _, _)
\* The for_each of VisualizeEmbedder::create_initial_embedding_data from position k on.
VisualizeCreateFrom(t, k, its) ==
    IF k = Len(Walk(t)) THEN its
    ELSE LET e == Walk(t)[k + 1]
         IN  VisualizeCreateFrom(t, k + 1,
                 Insert(its, k, VisualizeCreateFromNode(t, k, e[1], e[2], its)))

RECURSIVE VisualizeExtentsFrom(_, _, _)
\* VisualizeEmbedder::apply_children_x_extents from position k of tree.walk() on: the
\* node's x_extent_children becomes the sum of its children's current values.
VisualizeExtentsFrom(t, k, its) ==
    IF k = Len(Walk(t)) THEN its
    ELSE LET id == Walk(t)[k + 1][2]
             x_extent_children == SumChildren(its, NodeChildren(t, id))
         IN  VisualizeExtentsFrom(t, k + 1,
                 IF HasOrd(its, k)
                 THEN [its EXCEPT !.vec[k + 1].x_extent_children = x_extent_children]
                 ELSE its)

\* VisualizeEmbedder::x_center_layer: the statements of Embedder::x_center_layer, with
\* unwrap() and panic! where that one returns an error.
VisualizeXCenterLayer(l, its, checks) ==
    LET r == XCenterLayer(l, its, checks)
    IN  IF r.tag = "Err" THEN [tag |-> "Panic", items |-> r.items, msg |-> r.msg] ELSE r

RECURSIVE VisualizeXCenterFrom(_, _, _, _)
\* VisualizeEmbedder::apply_x_center: for l in 0..height + 1, from layer l on.
VisualizeXCenterFrom(l, h, its, checks) ==
    IF l >= h + 1 THEN [tag |-> "Ok", items |-> its, msg |-> ""]
    ELSE LET r == VisualizeXCenterLayer(l, its, checks)
         IN  IF r.tag # "Ok" THEN r ELSE VisualizeXCenterFrom(l + 1, h, r.items, checks)

\* VisualizeEmbedder::embed
VisualizeEmbed(t, checks) ==
    IF TooManyRoots(t) THEN Err("Currently we support only one root")
    ELSE LET created == VisualizeCreateFrom(t, 0, WithCapacity(Len(t.links)))
             widened == VisualizeExtentsFrom(t, 0, created)
             placed == VisualizeXCenterFrom(0, Height(widened), widened, checks)
         IN  IF checks /\ Len(created.vec) # Cardinality(DOMAIN created.map)
             THEN Abort("Panic", "assertion failed")
             ELSE IF placed.tag = "Ok" THEN Ok(TransferResult(placed.items))
             ELSE Abort(placed.tag, placed.msg)

\* A call of VisualizeEmbedder::embed on the tree.
VisualizeEmbedCall ==
    /\ pc = "idle"
    /\ call' = [mode |-> "visualize", source |-> <<>>]
    /\ \E checks \in BOOLEAN :
          /\ result' = VisualizeEmbed(tree, checks)
          /\ pc' = IF result'.tag \in {"Ok", "Err"} THEN "done" ELSE "panic"
    /\ UNCHANGED <<tree, items, walk_pos, event_pos, layer, height, prev, pass, layouter>>

NextVisualize == VisualizeEmbedCall

SpecVisualize == Init /\ [][NextVisualize]_vars

\* C29: every record VisualizeEmbedder::embed returns has x_extent_children =
\* max(x_extent, sum of the x_extent_children of its direct children), hence
\* x_extent_children >= x_extent >= 1.
C29_VisualizeExtentInvariant ==
    (call.mode = "visualize" /\ Returned) =>
        \A i \in 1..Len(Emb) :
            LET S == SumOver([j \in 1..Len(Emb) |-> Emb[j].x_extent_children],
                             { j \in 1..Len(Emb) : Emb[j].parent = Emb[i].ord })
            IN  /\ Emb[i].x_extent_children = MaxOf(Emb[i].x_extent, S)
                /\ Emb[i].x_extent_children >= Emb[i].x_extent
                /\ Emb[i].x_extent >= 1

====
